---- MODULE Spec2Model ----
(***************************************************************************)
(* bosun: the metric/tag search index (package search) and the silence     *)
(* rules of the scheduler (package sched).                                 *)
(*                                                                         *)
(* Strings are sequences of one-character strings, so that formatting,     *)
(* sorting and pattern matching are computed and not assumed.              *)
(***************************************************************************)
EXTENDS Integers, Sequences, FiniteSets, TLC

VARIABLES
    Metric,      \* Search.Metric: <<tagk, tagv>> -> set of metrics (live)
    Tagk,        \* Search.Tagk: metric -> set of tag keys (live)
    Tagv,        \* Search.Tagv: <<metric, tagk>> -> set of tag values (live)
    MetricTags,  \* Search.MetricTags: series key -> MetricTagSet (live)
    Last,        \* Search.Last: series key -> pair
    read,        \* Search.read: the published replica (four tables)
    copy,        \* Search.copy: a publish has been scheduled
    mu,          \* Search.RWMutex: "free", or "index" while Index holds it
    mdp,         \* the points of the running Index call not yet processed
    sleeping,    \* publish goroutines inside time.Sleep
    waking,      \* publish goroutines past the sleep, waiting for the lock
    rd,          \* the query caller: its position, locals and last result
    Silence,     \* Schedule.Silence: rule id -> rule
    status,      \* Schedule.status: alert key -> IsActive()
    now,         \* the wall clock
    smu,         \* the Schedule lock: "free" or the holder
    sc,          \* the silence caller: its position, locals and last result
    ob,          \* a second goroutine that calls Schedule.Silenced
    hist         \* history: what the running call of AddSilence was given

vars == <<Metric, Tagk, Tagv, MetricTags, Last, read, copy, mu, mdp,
          sleeping, waking, rd, Silence, status, now, smu, sc, ob, hist>>

searchVars == <<Metric, Tagk, Tagv, MetricTags, Last, read, copy, mu, mdp,
                sleeping, waking, rd>>

schedVars == <<Silence, status, now, smu, sc, ob, hist>>

(***************************************************************************)
(* Strings                                                                 *)
(***************************************************************************)

\* The characters of the model, in byte order.
Chars == <<" ", "$", "*", ",", "-", ".", "0", "1", "2", "3", "4",
           "5", "6", "7", "8", "9", "=", "\\", "^",
           "a", "b", "c", "d", "e", "h", "m", "o", "p", "s", "t", "u", "w",
           "x", "{", "|", "}">>

Ord(c) == CHOOSE i \in 1..Len(Chars) : Chars[i] = c

RECURSIVE StrLess(_, _)
\* a < b on strings, byte-wise (what sort.Strings compares with).
StrLess(a, b) ==
    IF b = <<>> THEN FALSE
    ELSE IF a = <<>> THEN TRUE
    ELSE IF Head(a) = Head(b) THEN StrLess(Tail(a), Tail(b))
    ELSE Ord(Head(a)) < Ord(Head(b))

RECURSIVE Insert(_, _)
Insert(sorted, x) ==
    IF sorted = <<>> THEN <<x>>
    ELSE IF StrLess(x, Head(sorted)) THEN <<x>> \o sorted
    ELSE <<Head(sorted)>> \o Insert(Tail(sorted), x)

RECURSIVE SortStrings(_)
\* sort.Strings on a slice.
SortStrings(xs) ==
    IF xs = <<>> THEN <<>> ELSE Insert(SortStrings(Tail(xs)), Head(xs))

RECURSIVE SetToSeq(_)
\* The elements of a map's key set in one iteration order.
SetToSeq(S) ==
    IF S = {} THEN <<>>
    ELSE LET x == CHOOSE y \in S : TRUE IN <<x>> \o SetToSeq(S \ {x})

Range(xs) == {xs[i] : i \in 1..Len(xs)}

RECURSIVE Replace(_, _, _)
\* strings.Replace(s, old, new, -1) for a one-character old.
Replace(s, old, new) ==
    IF s = <<>> THEN <<>>
    ELSE (IF Head(s) = old THEN new ELSE <<Head(s)>>) \o Replace(Tail(s), old, new)

Contains(s, c) == \E i \in 1..Len(s) : s[i] = c

RECURSIVE SplitAcc(_, _, _)
SplitAcc(s, sep, cur) ==
    IF s = <<>> THEN <<cur>>
    ELSE IF Head(s) = sep THEN <<cur>> \o SplitAcc(Tail(s), sep, <<>>)
    ELSE SplitAcc(Tail(s), sep, Append(cur, Head(s)))

\* strings.Split(s, sep) for a one-character sep.
Split(s, sep) == SplitAcc(s, sep, <<>>)

RECURSIVE Join(_, _)
\* strings.Join(xs, sep).
Join(xs, sep) ==
    IF xs = <<>> THEN <<>>
    ELSE IF Len(xs) = 1 THEN xs[1]
    ELSE xs[1] \o sep \o Join(Tail(xs), sep)

RECURSIVE TrimLeft(_)
TrimLeft(s) == IF s # <<>> /\ Head(s) = " " THEN TrimLeft(Tail(s)) ELSE s

RECURSIVE TrimRight(_)
TrimRight(s) ==
    IF s # <<>> /\ s[Len(s)] = " " THEN TrimRight(SubSeq(s, 1, Len(s) - 1)) ELSE s

\* strings.TrimSpace.
TrimSpace(s) == TrimRight(TrimLeft(s))

(***************************************************************************)
(* Match: the restricted glob of package search                            *)
(***************************************************************************)

\* The regular expression without the anchors.
TranslateUnanchored(search) ==
    Replace(Replace(search, ".", <<"\\", ".">>), "*", <<".", "*">>)

\* The regular expression Match compiles: "." escaped, "*" turned into ".*",
\* anchored at both ends.
Translate(search) ==
    <<"^">> \o Replace(Replace(search, ".", <<"\\", ".">>), "*", <<".", "*">>) \o <<"$">>

\* The width of the atom that starts re: an escape is two characters.
AtomLen(re) == IF Head(re) = "\\" /\ Len(re) >= 2 THEN 2 ELSE 1

\* Whether the atom that starts re matches the character c.
AtomMatches(re, c) ==
    IF Head(re) = "\\" /\ Len(re) >= 2 THEN re[2] = c
    ELSE IF Head(re) = "." THEN TRUE
    ELSE Head(re) = c

RECURSIVE MatchHere(_, _, _)
\* Whether re matches a prefix of the text s; atStart says that s begins at
\* the start of the whole text.
MatchHere(re, s, atStart) ==
    IF re = <<>> THEN TRUE
    ELSE IF Head(re) = "^" THEN atStart /\ MatchHere(Tail(re), s, atStart)
    ELSE IF Head(re) = "$" /\ Len(re) = 1 THEN s = <<>>
    ELSE LET n    == AtomLen(re)
             rest == SubSeq(re, n + 1, Len(re))
         IN IF rest # <<>> /\ Head(rest) = "*"
            THEN \E k \in 0..Len(s) :
                    /\ \A i \in 1..k : AtomMatches(re, s[i])
                    /\ MatchHere(Tail(rest), SubSeq(s, k + 1, Len(s)), atStart /\ k = 0)
            ELSE /\ s # <<>>
                 /\ AtomMatches(re, Head(s))
                 /\ MatchHere(rest, Tail(s), FALSE)

\* regexp.MatchString: the expression matches somewhere in the text.
ReMatchString(re, s) ==
    \E j \in 0..Len(s) : MatchHere(re, SubSeq(s, j + 1, Len(s)), j = 0)

\* One value against the compiled pattern of Match.
MatchString(search, nv) == ReMatchString(Translate(search), nv)

RECURSIVE Match(_, _)
\* search.Match: the values that match, in their order.
Match(search, values) ==
    IF values = <<>> THEN <<>>
    ELSE (IF MatchString(search, Head(values)) THEN <<Head(values)>> ELSE <<>>)
         \o Match(search, Tail(values))

(***************************************************************************)
(* The values of the model                                                 *)
(***************************************************************************)

cpu == <<"c", "p", "u">>
mem == <<"m", "e", "m">>
host == <<"h", "o", "s", "t">>
dc == <<"d", "c">>
us == <<"u", "s">>
web == <<"w", "e", "b">>
web01 == <<"w", "e", "b", "-", "0", "1">>
web02 == <<"w", "e", "b", "-", "0", "2">>
db01 == <<"d", "b", "-", "0", "1">>
EmptyString == <<>>

\* Longest Index batch of the model.
MaxBatch == 2
\* Largest timestamp of a data point in the model.
MaxT == 4

\* A TagSet with one pair.
Tag1(k, v) == [x \in {k} |-> v]
\* The nil TagSet.
NoTags == <<>>

\* A float64 value and a value of another type.
Float(f) == [ok |-> TRUE, f |-> f]
NotFloat == [ok |-> FALSE, f |-> 0]

DataPoint(m, t, ts, v) == [Metric |-> m, Tags |-> t, Timestamp |-> ts, Value |-> v]

\* The zero DataPoint of a fresh pair.
ZeroPoint == DataPoint(EmptyString, NoTags, 0, NotFloat)

\* The series of the index specifications.
SeriesSet == { <<cpu, Tag1(host, web01)>>, <<cpu, Tag1(host, web02)>>,
               <<mem, Tag1(host, db01)>> }

\* Points of Spec: three series, one timestamp and value each.
Points == { DataPoint(s[1], s[2], 1, Float(1)) : s \in SeriesSet }

\* Points of SpecLast: one series, every timestamp with two float64 values,
\* and one point whose value is no float64.
LastPoints ==
    { DataPoint(cpu, Tag1(host, web01), ts, v) : ts \in 0..MaxT, v \in {Float(1), Float(3)} }
    \cup { DataPoint(cpu, Tag1(host, web01), 2, NotFloat) }

(***************************************************************************)
(* Search: the tables                                                      *)
(***************************************************************************)

RECURSIVE TagsJoin(_, _)
TagsJoin(t, keys) ==
    IF keys = <<>> THEN <<>>
    ELSE Head(keys) \o <<"=">> \o t[Head(keys)]
         \o (IF Len(keys) > 1 THEN <<",">> ELSE <<>>) \o TagsJoin(t, Tail(keys))

\* opentsdb.TagSet.String: "{k=v,k2=v2}", keys sorted.
TagsString(t) ==
    <<"{">> \o TagsJoin(t, SortStrings(SetToSeq(DOMAIN t))) \o <<"}">>

\* MetricTagSet.key.
key(mts) == mts.Metric \o TagsString(mts.Tags)

\* The set at m[k] made anew for x: what was in it is lost.
AddPresentFresh(m, k, x) == [q \in DOMAIN m \cup {k} |-> IF q = k THEN {x} ELSE m[q]]

\* m[k] with x added, the set made when k is new.
AddPresent(m, k, x) ==
    [q \in DOMAIN m \cup {k} |->
        (IF q \in DOMAIN m THEN m[q] ELSE {}) \cup (IF q = k THEN {x} ELSE {})]

\* The totality of a map: the value at k, or the zero value.
Lookup(m, k, zero) == IF k \in DOMAIN m THEN m[k] ELSE zero

Put(m, k, v) == [q \in DOMAIN m \cup {k} |-> IF q = k THEN v ELSE m[q]]

RECURSIVE IndexTags(_, _, _)
\* The loop of Index over the tags of a point, on the three derived tables.
IndexTags(t, dp, keys) ==
    IF keys = <<>> THEN t
    ELSE LET k == Head(keys)
             v == dp.Tags[k]
         IN IndexTags([Metric |-> AddPresent(t.Metric, <<k, v>>, dp.Metric),
                       Tagk   |-> AddPresent(t.Tagk, dp.Metric, k),
                       Tagv   |-> AddPresent(t.Tagv, <<dp.Metric, k>>, v)],
                      dp, Tail(keys))

\* A fresh pair.
NewPair == [points |-> <<ZeroPoint, ZeroPoint>>, index |-> 0]

\* Index writes slot index%2 and reads it to decide.
WriteSlot(p) == (p.index % 2) + 1

\* Index's decision to store a point in the pair.
Accepts(p, dp) == p.points[WriteSlot(p)].Timestamp < dp.Timestamp

\* The pair after Index has seen dp.
UpdatePair(p, dp) ==
    IF Accepts(p, dp)
    THEN [points |-> [p.points EXCEPT ![WriteSlot(p)] = dp], index |-> p.index + 1]
    ELSE p

\* An empty replica: new(Search), every table nil. shared names the tables
\* of a replica whose sets are the very sets of the live tables.
EmptyTables ==
    [Metric |-> <<>>, Tagk |-> <<>>, Tagv |-> <<>>, MetricTags |-> <<>>, shared |-> {}]

\* Copy that leaves the replica as it is.
SearchCopyStale(M, K, V, MT) == read

\* Copy whose maps are new but hold the sets of the live tables themselves.
SearchCopyShallow(M, K, V, MT) ==
    [Metric |-> M, Tagk |-> K, Tagv |-> V, MetricTags |-> MT,
     shared |-> {"Metric", "Tagk", "Tagv"}]

\* Search.Copy: the new replica. qmap.Copy and smap.Copy copy every set with
\* present.Copy and mtsmap.Copy copies the MetricTagSet values, so the
\* replica shares no set with the live tables.
SearchCopy(M, K, V, MT) ==
    [Metric |-> M, Tagk |-> K, Tagv |-> V, MetricTags |-> MT, shared |-> {}]

\* A table of the replica r as a reader finds it: a set that is shared with
\* the live table own holds what Index has put into it since.
Through(r, name, own, live) ==
    IF name \in r.shared THEN [k \in DOMAIN own |-> live[k]] ELSE own

\* The replica r as a reader finds it.
Visible(r) ==
    [Metric     |-> Through(r, "Metric", r.Metric, Metric),
     Tagk       |-> Through(r, "Tagk", r.Tagk, Tagk),
     Tagv       |-> Through(r, "Tagv", r.Tagv, Tagv),
     MetricTags |-> r.MetricTags,
     shared     |-> r.shared]

\* s.read, as a query finds it.
Replica == Visible(read)

(***************************************************************************)
(* Search: Index and the publish goroutine                                 *)
(***************************************************************************)

\* Index that starts a publish goroutine in every call.
IndexLockAlways(n) ==
    /\ mu = "free"
    /\ mu' = "index"
    /\ mdp' = n
    /\ copy' = TRUE
    /\ sleeping' = sleeping + 1
    /\ UNCHANGED <<Metric, Tagk, Tagv, MetricTags, Last, read, waking, rd>>
    /\ UNCHANGED schedVars

\* Index, from the lock to the start of the loop: the first call since the
\* last publish starts the goroutine that publishes. n is len(mdp).
IndexLock(n) ==
    /\ mu = "free"
    /\ mu' = "index"
    /\ mdp' = n
    /\ IF ~copy
       THEN copy' = TRUE /\ sleeping' = sleeping + 1
       ELSE UNCHANGED <<copy, sleeping>>
    /\ UNCHANGED <<Metric, Tagk, Tagv, MetricTags, Last, read, waking, rd>>
    /\ UNCHANGED schedVars

\* One turn of the loop of Index, on the point dp of the batch.
IndexPoint(dp) ==
    /\ mu = "index"
    /\ mdp > 0
    /\ LET mts == [Metric |-> dp.Metric, Tags |-> dp.Tags]
           t   == IndexTags([Metric |-> Metric, Tagk |-> Tagk, Tagv |-> Tagv], dp,
                            SetToSeq(DOMAIN dp.Tags))
           p   == Lookup(Last, key(mts), NewPair)
       IN /\ MetricTags' = Put(MetricTags, key(mts), mts)
          /\ Metric' = t.Metric
          /\ Tagk' = t.Tagk
          /\ Tagv' = t.Tagv
          /\ Last' = Put(Last, key(mts), UpdatePair(p, dp))
    /\ mdp' = mdp - 1
    /\ UNCHANGED <<read, copy, mu, sleeping, waking, rd>>
    /\ UNCHANGED schedVars

\* Index, after the loop.
IndexUnlock ==
    /\ mu = "index"
    /\ mdp = 0
    /\ mu' = "free"
    /\ UNCHANGED <<Metric, Tagk, Tagv, MetricTags, Last, read, copy, mdp,
                   sleeping, waking, rd>>
    /\ UNCHANGED schedVars

\* The goroutine of Index: time.Sleep returns.
Wake ==
    /\ sleeping > 0
    /\ sleeping' = sleeping - 1
    /\ waking' = waking + 1
    /\ UNCHANGED <<Metric, Tagk, Tagv, MetricTags, Last, read, copy, mu, mdp, rd>>
    /\ UNCHANGED schedVars

\* The goroutine of Index that copies without the lock.
PublishWithoutLock ==
    /\ waking > 0
    /\ read' = SearchCopy(Metric, Tagk, Tagv, MetricTags)
    /\ copy' = FALSE
    /\ waking' = waking - 1
    /\ rd' = IF rd.pc \in {"idle", "done"} THEN rd ELSE [rd EXCEPT !.seen = @ \cup {read'}]
    /\ UNCHANGED <<Metric, Tagk, Tagv, MetricTags, Last, mu, mdp, sleeping>>
    /\ UNCHANGED schedVars

\* The goroutine of Index: Lock, Copy, copy = false, Unlock. A query that is
\* running notes the replica that became current.
Publish ==
    /\ waking > 0
    /\ mu = "free"
    /\ read' = SearchCopy(Metric, Tagk, Tagv, MetricTags)
    /\ copy' = FALSE
    /\ waking' = waking - 1
    /\ rd' = IF rd.pc \in {"idle", "done"} THEN rd ELSE [rd EXCEPT !.seen = @ \cup {read'}]
    /\ UNCHANGED <<Metric, Tagk, Tagv, MetricTags, Last, mu, mdp, sleeping>>
    /\ UNCHANGED schedVars

(***************************************************************************)
(* Search: the queries                                                     *)
(***************************************************************************)

\* The sorted keys of the set at m[k], empty when k is not there.
SortedAt(m, k) == SortStrings(SetToSeq(Lookup(m, k, {})))

\* Search.tagValuesByMetricTagKey, on the replica r that s.read holds.
tagValuesByMetricTagKey(r, m, k) == SortedAt(r.Tagv, <<m, k>>)

\* Search.TagValuesByMetricTagKey.
TagValuesByMetricTagKey(r, m, k) == tagValuesByMetricTagKey(r, m, k)

\* Search.MetricsByTagPair.
MetricsByTagPair(r, k, v) == SortedAt(r.Metric, <<k, v>>)

\* Search.TagKeysByMetric.
TagKeysByMetric(r, m) == SortedAt(r.Tagk, m)

\* n zero strings, what make([]string, n) holds.
Blanks(n) == [i \in 1..n |-> EmptyString]

\* Search.UniqueMetrics after make: the slice of length n filled from the
\* replica's Tagk and sorted. Filling past the length panics.
UniqueMetricsPanics(n, r) == Cardinality(DOMAIN r.Tagk) > n

UniqueMetricsFilled(n, r) ==
    LET ks == SetToSeq(DOMAIN r.Tagk)
    IN SortStrings(ks \o Blanks(n - Len(ks)))

\* Search.UniqueMetrics when nothing runs between its statements.
UniqueMetrics == UniqueMetricsFilled(Cardinality(DOMAIN Tagk), Replica)

NoRet == [op |-> "", arg |-> <<>>, val |-> <<>>, err |-> "", seen |-> {}]

NoQuery == [Metric |-> EmptyString, Tags |-> <<>>]

\* The query caller between two calls.
Idle ==
    [pc |-> "idle", op |-> "", arg |-> <<>>, n |-> 0, um |-> <<>>, i |-> 0, set |-> {},
     q |-> NoQuery, keys |-> <<>>, alts |-> <<>>, nvs |-> <<>>, seen |-> {}, ret |-> NoRet]

\* The query caller holding what its call returned: the value val and the
\* error err of op(arg), and the replicas that were current during the call.
Returns(op, arg, val, err, seen) ==
    [Idle EXCEPT !.pc = "done",
                 !.ret = [op |-> op, arg |-> arg, val |-> val, err |-> err, seen |-> seen]]

\* The query caller drops the result and is ready for the next call.
QueryReturn ==
    /\ rd.pc = "done"
    /\ rd' = Idle
    /\ UNCHANGED <<Metric, Tagk, Tagv, MetricTags, Last, read, copy, mu, mdp,
                   sleeping, waking>>
    /\ UNCHANGED schedVars

\* UniqueMetrics, called by itself or as the first statement of
\* TagValuesByTagKey(arg): make([]string, len(s.Tagk)). No lock is taken.
UniqueMetricsLen(op, arg) ==
    /\ rd.pc = "idle"
    /\ rd' = [Idle EXCEPT !.pc = "um", !.op = op, !.arg = arg,
                                 !.n = Cardinality(DOMAIN Tagk), !.seen = {read}]
    /\ UNCHANGED <<Metric, Tagk, Tagv, MetricTags, Last, read, copy, mu, mdp,
                   sleeping, waking>>
    /\ UNCHANGED schedVars

\* UniqueMetrics: the loop over s.read.Tagk and the sort. TagValuesByTagKey
\* goes on to its loop over the metrics.
UniqueMetricsFill ==
    /\ rd.pc = "um"
    /\ LET um == UniqueMetricsFilled(rd.n, Replica)
       IN rd' = IF UniqueMetricsPanics(rd.n, Replica)
                THEN Returns(rd.op, rd.arg, <<>>, "panic", rd.seen)
                ELSE IF rd.op = "UniqueMetrics"
                THEN Returns(rd.op, rd.arg, um, "nil", rd.seen)
                ELSE IF um = <<>>
                THEN Returns(rd.op, rd.arg, <<>>, "nil", rd.seen)
                ELSE [rd EXCEPT !.pc = "loop", !.um = um, !.i = 1]
    /\ UNCHANGED <<Metric, Tagk, Tagv, MetricTags, Last, read, copy, mu, mdp,
                   sleeping, waking>>
    /\ UNCHANGED schedVars

\* TagValuesByTagKey: one turn of the loop over the metrics, which reads
\* s.read again; after the last turn the set is sorted and returned.
TagValuesStep ==
    /\ rd.pc = "loop"
    /\ LET set == rd.set \cup Range(tagValuesByMetricTagKey(Replica, rd.um[rd.i], rd.arg))
       IN rd' = IF rd.i = Len(rd.um)
                THEN Returns(rd.op, rd.arg, SortStrings(SetToSeq(set)), "nil", rd.seen)
                ELSE [rd EXCEPT !.set = set, !.i = rd.i + 1]
    /\ UNCHANGED <<Metric, Tagk, Tagv, MetricTags, Last, read, copy, mu, mdp,
                   sleeping, waking>>
    /\ UNCHANGED schedVars

\* What TagValuesByTagKey(k) gives when all of it reads the replica r.
TagValuesByTagKeyOn(r, k) ==
    SortStrings(SetToSeq(UNION { Range(tagValuesByMetricTagKey(r, m, k)) :
                                    m \in DOMAIN r.Tagk }))

Star == <<"*">>
Bar == <<"|">>

\* Expand, the body of the loop over the alternatives: what the alternative
\* v adds to nvs, read from the replica r.
ExpandOne(r, m, k, v) ==
    IF v = Star \/ ~Contains(v, "*")
    THEN <<v>>
    ELSE Match(v, TagValuesByMetricTagKey(r, m, k))

\* The queries of the model: tag values with alternatives and wildcards.
Queries ==
    { [Metric |-> cpu, Tags |-> Tag1(host, v)] :
        v \in { web \o Star,
                <<"x">> \o Star \o Bar \o web01,
                <<"x">> \o Star,
                Star \o <<" ">> \o Bar \o <<" ">> \o db01 \o Star } }
    \cup { [Metric |-> cpu,
            Tags |-> [k \in {host, dc} |-> IF k = host THEN web \o Star ELSE us \o Star]] }

\* The orders in which a loop can range over the set S.
Orders(S) ==
    { o \in [1..Cardinality(S) -> S] : \A i, j \in DOMAIN o : i # j => o[i] # o[j] }

\* Expand, to the first alternative of the first tag; order is the order in
\* which the loop ranges over q.Tags.
ExpandCall(q, order) ==
    /\ rd.pc = "idle"
    /\ rd' = IF order = <<>>
             THEN Returns("Expand", q, q.Tags, "nil", {read})
             ELSE [Idle EXCEPT !.pc = "expand", !.op = "Expand", !.arg = q,
                                      !.q = q, !.keys = order,
                                      !.alts = Split(q.Tags[order[1]], "|"),
                                      !.seen = {read}]
    /\ UNCHANGED <<Metric, Tagk, Tagv, MetricTags, Last, read, copy, mu, mdp,
                   sleeping, waking>>
    /\ UNCHANGED schedVars

\* Expand: one alternative, which reads s.read; after the last alternative of
\* a tag the tag is checked and rewritten, and the next tag begins.
ExpandAlt ==
    /\ rd.pc = "expand"
    /\ LET k   == Head(rd.keys)
           nvs == rd.nvs \o ExpandOne(Replica, rd.q.Metric, k, TrimSpace(Head(rd.alts)))
           q2  == [rd.q EXCEPT !.Tags[k] = Join(nvs, Bar)]
       IN rd' = IF Tail(rd.alts) # <<>>
                THEN [rd EXCEPT !.alts = Tail(rd.alts), !.nvs = nvs]
                ELSE IF Len(nvs) = 0
                THEN Returns("Expand", rd.arg, rd.q.Tags, "no tags matching", rd.seen)
                ELSE IF Tail(rd.keys) = <<>>
                THEN Returns("Expand", rd.arg, q2.Tags, "nil", rd.seen)
                ELSE [rd EXCEPT !.q = q2, !.keys = Tail(rd.keys), !.nvs = <<>>,
                                !.alts = Split(q2.Tags[rd.keys[2]], "|")]
    /\ UNCHANGED <<Metric, Tagk, Tagv, MetricTags, Last, read, copy, mu, mdp,
                   sleeping, waking>>
    /\ UNCHANGED schedVars

\* GetLast reading the write slot as the newer point.
NewerSlotSwapped(p) == (p.index % 2) + 1

\* GetLast reads the slot after the write slot as the newer point.
NewerSlot(p) == ((p.index + 1) % 2) + 1

OlderSlot(p) == (p.index % 2) + 1

\* A float64 as a fraction; a division is left as it was asked.
Frac(num, den) == [num |-> num, den |-> den]

\* Search.GetLast on the cache L: the value v and the error err it returns.
GetLastOn(L, metric, tags, diff) ==
    IF metric \o tags \in DOMAIN L
    THEN LET p    == L[metric \o tags]
             e    == p.points[NewerSlot(p)]
             o    == p.points[OlderSlot(p)]
             err1 == IF e.Value.ok THEN "nil" ELSE "errNotFloat"
             err2 == IF o.Value.ok THEN err1 ELSE "errNotFloat"
             err3 == IF o.Timestamp = 0 \/ e.Timestamp = 0
                     THEN "need two data points" ELSE err2
         IN IF diff
            THEN [v   |-> Frac(e.Value.f - o.Value.f, e.Timestamp - o.Timestamp),
                  err |-> err3]
            ELSE [v |-> Frac(e.Value.f, 1), err |-> err1]
    ELSE [v |-> Frac(0, 1), err |-> "nil"]

\* Search.GetLast.
GetLast(metric, tags, diff) == GetLastOn(Last, metric, tags, diff)

\* A call of GetLast, under the read lock.
GetLastCall(metric, tags, diff) ==
    /\ rd.pc = "idle"
    /\ mu = "free"
    /\ LET r == GetLast(metric, tags, diff)
       IN rd' = Returns("GetLast", <<metric, tags, diff>>, r.v, r.err, {})
    /\ UNCHANGED <<Metric, Tagk, Tagv, MetricTags, Last, read, copy, mu, mdp,
                   sleeping, waking>>
    /\ UNCHANGED schedVars

(***************************************************************************)
(* sched: alert keys                                                       *)
(***************************************************************************)

RECURSIVE UpTo(_, _)
\* The part of s before the first c (all of s when c is not in it).
UpTo(s, c) ==
    IF s = <<>> \/ Head(s) = c THEN <<>> ELSE <<Head(s)>> \o UpTo(Tail(s), c)

\* The part of s after the first c.
After(s, c) == SubSeq(s, Len(UpTo(s, c)) + 2, Len(s))

\* opentsdb.ParseTags accepts "k=v,k2=v2" with no empty key or value.
TagsWellFormed(t) ==
    \A i \in 1..Len(Split(t, ",")) :
        LET kv == Split(Split(t, ",")[i], "=")
        IN Len(kv) = 2 /\ kv[1] # <<>> /\ kv[2] # <<>>

\* opentsdb.ParseTags.
ParseTags(t) ==
    LET parts == Split(t, ",")
    IN [k \in {Split(parts[i], "=")[1] : i \in 1..Len(parts)} |->
          LET i == CHOOSE j \in 1..Len(parts) : Split(parts[j], "=")[1] = k
          IN Split(parts[i], "=")[2]]

\* expr.AlertKey.Name: the text before the tags.
Name(ak) == UpTo(ak, "{")

\* expr.AlertKey.Group: the tags between the braces.
Group(ak) ==
    LET inner == After(ak, "{")
        t     == SubSeq(inner, 1, Len(inner) - 1)
    IN IF t = <<>> THEN NoTags ELSE ParseTags(t)

\* expr.ParseAlertKey fails when the tags do not parse.
ParseAlertKeyFails(a) ==
    LET inner == After(a, "{")
        t     == SubSeq(inner, 1, Len(inner) - 1)
    IN t # <<>> /\ ~TagsWellFormed(t)

\* expr.NewAlertKey: the name followed by the tags.
AlertKey(name, tags) == name \o TagsString(tags)

(***************************************************************************)
(* sched: Silence                                                          *)
(***************************************************************************)

\* sched's Match of one pattern against one value: the glob of search.Match.
SchedMatch(pattern, tagv) == MatchString(pattern, tagv)

\* Silence.Matches. The loop over the rule's tags returns false at the first
\* tag that is absent or does not match.
Matches(s, alert) ==
    IF s.Alert # EmptyString /\ s.Alert # alert THEN FALSE
    ELSE \A k \in DOMAIN Group(s.Alert) :
            /\ k \in DOMAIN Group(alert)
            /\ SchedMatch(Group(s.Alert)[k], Group(alert)[k])

\* Silenced with the end of the window left out.
SilencedEndExclusive(s, t, alert) ==
    IF t < s.Start \/ t >= s.End THEN FALSE ELSE Matches(s, alert)

\* Silence.Silenced.
Silenced(s, t, alert) ==
    IF t < s.Start \/ t > s.End THEN FALSE ELSE Matches(s, alert)

\* The digits of a time: what %s prints of a time.Time of the model.
TimeString(t) == <<<<"0", "1", "2", "3", "4", "5", "6", "7", "8", "9">>[t + 1]>>

\* fmt.Fprintf(h, "%s|%s|%s", s.Start, s.End, s.Alert): the text that is hashed.
IDText(s) == TimeString(s.Start) \o <<"|">> \o TimeString(s.End) \o <<"|">> \o s.Alert

\* The hashed text with the start left out.
IDWithoutStart(s) == TimeString(s.End) \o <<"|">> \o s.Alert

\* Silence.ID: the hexadecimal SHA-1 of the text. SHA-1 is taken to be free
\* of collisions, so the text stands for its hash.
ID(s) == IDText(s)

\* The zero time.Time.
ZeroTime == 0

RECURSIVE SilencedRules(_, _, _, _)
\* Schedule.Silenced, the loop over the rules for one alert key: aks[ak] is
\* raised to the End of every rule that silences ak now.
SilencedRules(aks, ak, ids, t) ==
    IF ids = <<>> THEN aks
    ELSE LET si == Silence[Head(ids)]
         IN SilencedRules(
                IF Silenced(si, t, ak) /\ Lookup(aks, ak, ZeroTime) < si.End
                THEN Put(aks, ak, si.End) ELSE aks,
                ak, Tail(ids), t)

RECURSIVE SilencedAlerts(_, _, _)
\* Schedule.Silenced, the loop over the alert keys of the status map.
SilencedAlerts(aks, alerts, t) ==
    IF alerts = <<>> THEN aks
    ELSE SilencedAlerts(SilencedRules(aks, Head(alerts), SetToSeq(DOMAIN Silence), t),
                        Tail(alerts), t)

\* Schedule.Silenced with the comparison of the End times turned around: the
\* earliest End is kept.
ScheduleSilencedMin(t) ==
    [ak \in {a \in DOMAIN status : \E id \in DOMAIN Silence : Silenced(Silence[id], t, a)} |->
        LET ends == {Silence[id].End : id \in {i \in DOMAIN Silence : Silenced(Silence[i], t, ak)}}
        IN CHOOSE e \in ends : \A f \in ends : e <= f]

\* Schedule.Silenced, with t the time it read before the lock.
ScheduleSilenced(t) == SilencedAlerts(<<>>, SetToSeq(DOMAIN status), t)

(***************************************************************************)
(* sched: the operations of Schedule on the silences                       *)
(***************************************************************************)

\* Largest start or end time of a rule in the model.
MaxTime == 3
\* Where the clock of the model stops.
MaxNow == MaxTime + 1
\* Most rules the store holds in the model.
MaxSilences == 2

alertA == <<"a">>
alertB == <<"b">>

\* The alert keys the Schedule tracks, with IsActive of their status.
Tracked ==
    LET act == { AlertKey(alertA, Tag1(host, web01)),
                 AlertKey(alertA, [k \in {host, dc} |-> IF k = host THEN web01 ELSE us]),
                 AlertKey(alertB, Tag1(dc, us)) }
        off == { AlertKey(alertB, Tag1(host, web02)),
                 AlertKey(alertA, Tag1(host, db01)) }
    IN [ak \in act \cup off |-> ak \in act]

\* The alert and tagList arguments of AddSilence in the model; the last one
\* does not parse.
Patterns ==
    { <<EmptyString, EmptyString>>,
      <<EmptyString, host \o <<"=">> \o web \o Star>>,
      <<alertA, host \o <<"=">> \o web01>>,
      <<EmptyString, host>> }

NoSRet == [op |-> "", val |-> <<>>, err |-> "", saved |-> "no"]

\* No rule: the locals of a caller that is not inside AddSilence.
NoRule == [Start |-> 0, End |-> 0, Alert |-> <<>>]

\* The silence caller between two calls. si is the rule AddSilence has built.
ScIdle == [pc |-> "idle", op |-> "", snow |-> 0, saved |-> "no", si |-> NoRule,
           ret |-> NoSRet]

\* The silence caller holding what its call returned: the value val and the
\* error err of op, and whether Save ran, with the lock held or not.
ScReturns(op, val, err, saved) ==
    [ScIdle EXCEPT !.pc = "done",
                   !.ret = [NoSRet EXCEPT !.op = op, !.val = val, !.err = err,
                                          !.saved = saved]]

\* delete(m, k) that empties the map.
RemoveAll(m, k) == <<>>

\* delete(m, k).
Remove(m, k) == [q \in DOMAIN m \ {k} |-> m[q]]

\* Nothing noted: no call of AddSilence runs.
NoHist == [before |-> <<>>, edit |-> <<>>, args |-> <<>>]

\* The clock advances.
Tick ==
    /\ now < MaxNow
    /\ now' = now + 1
    /\ UNCHANGED <<Silence, status, smu, sc, ob, hist>>
    /\ UNCHANGED searchVars

\* Schedule.Silenced: now := time.Now(), before the lock.
SilencedNow ==
    /\ sc.pc = "idle"
    /\ sc' = [ScIdle EXCEPT !.pc = "silenced", !.op = "Silenced", !.snow = now]
    /\ UNCHANGED <<Silence, status, now, smu, ob, hist>>
    /\ UNCHANGED searchVars

\* Schedule.Silenced: Lock, the two loops, Unlock, return.
SilencedScan ==
    /\ sc.pc = "silenced"
    /\ smu = "free"
    /\ sc' = [ScReturns("Silenced", ScheduleSilenced(sc.snow), "nil", "no")
                EXCEPT !.snow = sc.snow]
    /\ UNCHANGED <<Silence, status, now, smu, ob, hist>>
    /\ UNCHANGED searchVars

\* AddSilence with the check of the names before the checks of the times.
AddSilenceErrorNamesFirst(start, end, alert, tagList, t) ==
    IF alert = EmptyString /\ tagList = EmptyString
    THEN "must specify either alert or tags"
    ELSE IF start = ZeroTime \/ end = ZeroTime THEN "both start and end must be specified"
    ELSE IF start > end THEN "start time must be before end time"
    ELSE IF t - end > 0 THEN "end time must be in the future"
    ELSE IF ParseAlertKeyFails(alert \o <<"{">> \o tagList \o <<"}">>) THEN "parse error"
    ELSE "nil"

\* AddSilence: the error of the first check that fails at time t, "nil" when
\* none does.
AddSilenceError(start, end, alert, tagList, t) ==
    IF start = ZeroTime \/ end = ZeroTime THEN "both start and end must be specified"
    ELSE IF start > end THEN "start time must be before end time"
    ELSE IF t - end > 0 THEN "end time must be in the future"
    ELSE IF alert = EmptyString /\ tagList = EmptyString
    THEN "must specify either alert or tags"
    ELSE IF ParseAlertKeyFails(alert \o <<"{">> \o tagList \o <<"}">>) THEN "parse error"
    ELSE "nil"

\* The preview that reports only the keys the rule silences now.
PreviewInWindow(si) == [ak \in {a \in DOMAIN status : Silenced(si, now, a)} |-> status[ak]]

\* AddSilence without confirm: the tracked alert keys the rule matches, with
\* IsActive of each.
Preview(si) == [ak \in {a \in DOMAIN status : Matches(si, a)} |-> status[ak]]

\* AddSilence that does not take the lock.
AddSilenceNoLock == "free"

\* The Schedule lock while AddSilence holds it: s.Lock().
AddSilenceLock == "AddSilence"

\* AddSilence up to its return, or with confirm up to delete(s.Silence, edit).
\* The checks read the clock and take no lock; without confirm the lock, the
\* scan and the deferred Unlock are one step.
AddSilenceCall(start, end, alert, tagList, confirm, edit) ==
    /\ sc.pc = "idle"
    /\ smu = "free"
    /\ LET err  == AddSilenceError(start, end, alert, tagList, now)
           si   == [Start |-> start, End |-> end,
                    Alert |-> alert \o <<"{">> \o tagList \o <<"}">>]
       IN IF err # "nil"
          THEN /\ sc' = ScReturns("AddSilence", <<>>, err, "no")
               /\ UNCHANGED <<Silence, smu>>
          ELSE IF confirm
          THEN /\ Cardinality(DOMAIN Put(Remove(Silence, edit), ID(si), si)) <= MaxSilences
               /\ Silence' = Remove(Silence, edit)
               /\ smu' = AddSilenceLock
               /\ sc' = [ScIdle EXCEPT !.pc = "insert", !.op = "AddSilence", !.si = si]
          ELSE /\ sc' = ScReturns("AddSilence", Preview(si), "nil", "no")
               /\ UNCHANGED <<Silence, smu>>
    /\ UNCHANGED <<status, now, ob>>
    /\ UNCHANGED searchVars

\* AddSilence with confirm: s.Silence[si.ID()] = si.
AddInsert ==
    /\ sc.pc = "insert"
    /\ Silence' = Put(Silence, ID(sc.si), sc.si)
    /\ sc' = [sc EXCEPT !.pc = "save"]
    /\ UNCHANGED <<status, now, smu, ob, hist>>
    /\ UNCHANGED searchVars

\* AddSilence with confirm: s.Save(), the lock still held.
AddSave ==
    /\ sc.pc = "save"
    /\ sc' = [sc EXCEPT !.pc = "unlock",
                        !.saved = IF smu = "free" THEN "unlocked" ELSE "locked"]
    /\ UNCHANGED <<Silence, status, now, smu, ob, hist>>
    /\ UNCHANGED searchVars

\* AddSilence with confirm: return nil, nil, and the deferred Unlock.
AddReturn ==
    /\ sc.pc = "unlock"
    /\ smu' = "free"
    /\ sc' = ScReturns(sc.op, <<>>, "nil", sc.saved)
    /\ UNCHANGED <<Silence, status, now, ob, hist>>
    /\ UNCHANGED searchVars

\* ClearSilence: Lock, delete, Unlock.
ClearSilenceCall(id) ==
    /\ sc.pc = "idle"
    /\ smu = "free"
    /\ Silence' = Remove(Silence, id)
    /\ sc' = [ScIdle EXCEPT !.pc = "clearsave", !.op = "ClearSilence"]
    /\ UNCHANGED <<status, now, smu, ob, hist>>
    /\ UNCHANGED searchVars

\* ClearSilence: s.Save() and return nil.
ClearSave ==
    /\ sc.pc = "clearsave"
    /\ sc' = ScReturns(sc.op, <<>>, "nil", IF smu = "free" THEN "unlocked" ELSE "locked")
    /\ UNCHANGED <<Silence, status, now, smu, ob, hist>>
    /\ UNCHANGED searchVars

\* The silence caller drops the result, and what was noted of the call, and
\* is ready for the next call.
SilenceReturn ==
    /\ sc.pc = "done"
    /\ sc' = ScIdle
    /\ hist' = NoHist
    /\ UNCHANGED <<Silence, status, now, smu, ob>>
    /\ UNCHANGED searchVars

\* The second goroutine between two calls of Schedule.Silenced. gap tells
\* whether its scan ran between the delete and the insertion of an AddSilence.
ObIdle == [pc |-> "idle", snow |-> 0, val |-> <<>>, gap |-> FALSE]

\* Schedule.Silenced in the second goroutine: now := time.Now().
ObservedNow ==
    /\ ob.pc = "idle"
    /\ ob' = [ObIdle EXCEPT !.pc = "silenced", !.snow = now]
    /\ UNCHANGED <<Silence, status, now, smu, sc, hist>>
    /\ UNCHANGED searchVars

\* Schedule.Silenced in the second goroutine: Lock, the loops, Unlock.
ObservedScan ==
    /\ ob.pc = "silenced"
    /\ smu = "free"
    /\ ob' = [ob EXCEPT !.pc = "done", !.val = ScheduleSilenced(ob.snow),
                        !.gap = (sc.pc = "insert")]
    /\ UNCHANGED <<Silence, status, now, smu, sc, hist>>
    /\ UNCHANGED searchVars

\* The second goroutine drops the result.
ObservedReturn ==
    /\ ob.pc = "done"
    /\ ob' = ObIdle
    /\ UNCHANGED <<Silence, status, now, smu, sc, hist>>
    /\ UNCHANGED searchVars

\* An id under which nothing is stored.
NoSuchID == EmptyString

(***************************************************************************)
(* Specifications                                                          *)
(***************************************************************************)

\* NewSearch.
InitSearch ==
    /\ Metric = <<>>
    /\ Tagk = <<>>
    /\ Tagv = <<>>
    /\ MetricTags = <<>>
    /\ Last = <<>>
    /\ read = EmptyTables
    /\ copy = FALSE
    /\ mu = "free"
    /\ mdp = 0
    /\ sleeping = 0
    /\ waking = 0
    /\ rd = Idle

\* A Schedule with no silences.
InitSched ==
    /\ Silence = <<>>
    /\ status = Tracked
    /\ now = 1
    /\ smu = "free"
    /\ sc = ScIdle
    /\ ob = ObIdle
    /\ hist = NoHist

Init == InitSearch /\ InitSched

\* Ingestion and the publish goroutine.
NextIngest(points) ==
    \/ \E n \in 0..MaxBatch : IndexLock(n)
    \/ \E dp \in points : IndexPoint(dp)
    \/ IndexUnlock
    \/ Wake
    \/ Publish

\* The queries on the replica.
NextQuery ==
    \/ UniqueMetricsLen("UniqueMetrics", EmptyString)
    \/ UniqueMetricsLen("TagValuesByTagKey", host)
    \/ UniqueMetricsFill
    \/ TagValuesStep
    \/ \E q \in Queries : \E order \in Orders(DOMAIN q.Tags) : ExpandCall(q, order)
    \/ ExpandAlt
    \/ QueryReturn

Next == NextIngest(Points) \/ NextQuery

\* The index: ingestion, publishing and the queries on the replica.
Spec == Init /\ [][Next]_vars

\* The index without the queries, the goroutine and the lock being fair.
FairSpec ==
    /\ Init
    /\ [][NextIngest(Points)]_vars
    /\ WF_vars(\E dp \in Points : IndexPoint(dp))
    /\ WF_vars(IndexUnlock)
    /\ WF_vars(Wake)
    /\ SF_vars(Publish)

NextLast ==
    \/ NextIngest(LastPoints)
    \/ \E diff \in BOOLEAN :
          \E m \in {cpu, mem} : GetLastCall(m, TagsString(Tag1(host, web01)), diff)
    \/ QueryReturn

\* The last-points cache of one series, over every timestamp and value.
SpecLast == Init /\ [][NextLast]_vars

\* AddSilence as the program runs it: nothing is noted.
AddSilence(start, end, alert, tagList, confirm, edit) ==
    /\ AddSilenceCall(start, end, alert, tagList, confirm, edit)
    /\ UNCHANGED hist

\* The edit arguments of AddSilence: an id that is stored or one that is not.
\* Without confirm the edit argument is not read, and one value is drawn.
EditIDs(confirm) == IF confirm THEN DOMAIN Silence \cup {NoSuchID} ELSE {NoSuchID}

NextSilence ==
    \/ Tick
    \/ SilencedNow
    \/ SilencedScan
    \/ \E start, end \in 0..MaxTime : \E p \in Patterns : \E confirm \in BOOLEAN :
          \E edit \in EditIDs(confirm) :
             AddSilence(start, end, p[1], p[2], confirm, edit)
    \/ AddInsert
    \/ AddSave
    \/ AddReturn
    \/ \E id \in DOMAIN Silence \cup {NoSuchID} : ClearSilenceCall(id)
    \/ ClearSave
    \/ SilenceReturn

\* The silences of the Schedule.
SpecSilence == Init /\ [][NextSilence]_vars

\* The alert and tagList arguments of AddSilence in SpecEdit.
EditPatterns == { <<alertA, host \o <<"=">> \o web01>> }

\* AddSilence with confirm, the rules and the edit id at its lock noted.
AddSilenceNoted(start, end, alert, tagList, edit) ==
    /\ AddSilenceCall(start, end, alert, tagList, TRUE, edit)
    /\ hist' = [NoHist EXCEPT !.before = Silence, !.edit = edit]

NextEdit ==
    \/ \E end \in 1..MaxTime : \E p \in EditPatterns :
          \E edit \in DOMAIN Silence \cup {NoSuchID} :
             AddSilenceNoted(1, end, p[1], p[2], edit)
    \/ AddInsert
    \/ AddSave
    \/ AddReturn
    \/ \E id \in DOMAIN Silence \cup {NoSuchID} : ClearSilenceCall(id)
    \/ ClearSave
    \/ SilenceReturn
    \/ ObservedNow
    \/ ObservedScan
    \/ ObservedReturn

\* Confirmed edits and clears by one goroutine while a second one calls
\* Schedule.Silenced.
SpecEdit == Init /\ [][NextEdit]_vars

\* Longest list of values given to Match in the model.
MaxValues == 2

\* The patterns given to Match: literals, "." and "*".
MatchPatterns ==
    { web \o Star, <<"a", ".", "b">>, Star, Star \o web \o Star, <<"w", "*", "b">>,
      web, <<"a", "*", ".", "b">>, EmptyString }

\* The values given to Match.
MatchValues ==
    { web, web01, <<"x">> \o web01, <<"a", ".", "b">>, <<"a", "x", "b">>, EmptyString }

\* The lists of at most n values.
ValueLists(n) == UNION { [1..k -> MatchValues] : k \in 0..n }

\* A call of Match.
MatchCall(search, values) ==
    /\ rd.pc = "idle"
    /\ rd' = Returns("Match", <<search, values>>, Match(search, values), "nil", {})
    /\ UNCHANGED <<Metric, Tagk, Tagv, MetricTags, Last, read, copy, mu, mdp,
                   sleeping, waking>>
    /\ UNCHANGED schedVars

NextMatch ==
    \/ \E search \in MatchPatterns : \E values \in ValueLists(MaxValues) :
          MatchCall(search, values)
    \/ QueryReturn

\* Match over patterns and lists of values.
SpecMatch == Init /\ [][NextMatch]_vars

\* AddSilence with its arguments noted.
AddSilenceWithArgs(start, end, p, confirm, edit) ==
    /\ AddSilenceCall(start, end, p[1], p[2], confirm, edit)
    /\ hist' = [NoHist EXCEPT !.args = <<start, end, p, confirm, edit>>]

\* Every call of AddSilence that fails or previews; the calls that store a
\* rule are those of SpecEdit.
NextAdd ==
    \/ Tick
    \/ \E start, end \in 0..MaxTime : \E p \in Patterns : \E confirm \in BOOLEAN :
          \E edit \in DOMAIN Silence \cup {NoSuchID} :
             /\ (confirm /\ AddSilenceError(start, end, p[1], p[2], now) = "nil")
                   => (start = 1 /\ p \in EditPatterns)
             /\ AddSilenceWithArgs(start, end, p, confirm, edit)
    \/ AddInsert
    \/ AddSave
    \/ AddReturn
    \/ SilenceReturn

\* AddSilence over all its arguments.
SpecAdd == Init /\ [][NextAdd]_vars

(***************************************************************************)
(* Properties of the silences                                              *)
(***************************************************************************)

RECURSIVE HasPrefix(_, _)
HasPrefix(v, prefix) ==
    IF prefix = <<>> THEN TRUE
    ELSE v # <<>> /\ Head(v) = Head(prefix) /\ HasPrefix(Tail(v), Tail(prefix))

\* The rules that are stored.
Rules == {Silence[id] : id \in DOMAIN Silence}

\* The rule AddSilence builds from its arguments.
RuleOf(start, end, p) == [Start |-> start, End |-> end, Alert |-> p[1] \o <<"{">> \o p[2] \o <<"}">>]

\* The rules AddSilence can be asked to store in the model.
AllRules == {RuleOf(start, end, p) : start \in 0..MaxTime, end \in 0..MaxTime, p \in Patterns}

\* C1: Matches is a wildcard by omission. A rule with no alert name and the
\* tags {host=web*} matches exactly the alert keys, of any name, whose tags
\* hold a host that begins with web; a rule with an alert name compares that
\* name with the name of the alert, and not with its tags.
C1_WildcardByOmission ==
    \A si \in Rules : \A ak \in DOMAIN status :
        /\ (Name(si.Alert) = EmptyString /\ Group(si.Alert) = Tag1(host, web \o Star))
              => (Matches(si, ak) <=>
                    (host \in DOMAIN Group(ak) /\ HasPrefix(Group(ak)[host], web)))
        /\ Name(si.Alert) # EmptyString
              => (Matches(si, ak) <=>
                    /\ Name(si.Alert) = Name(ak)
                    /\ \A k \in DOMAIN Group(si.Alert) :
                          /\ k \in DOMAIN Group(ak)
                          /\ SchedMatch(Group(si.Alert)[k], Group(ak)[k]))

\* For each rule of the model, whether at every time and for every tracked
\* key Silenced is the window, both ends included, and Matches.
TimeGate ==
    [si \in AllRules |->
        \A t \in 0..MaxNow : \A ak \in DOMAIN Tracked :
            Silenced(si, t, ak) <=> (si.Start <= t /\ t <= si.End /\ Matches(si, ak))]

\* C9: Silenced(now, alert) is true exactly when start <= now <= end, both
\* ends included, and Matches(alert) is true.
C9_TimeGate ==
    /\ status = Tracked
    /\ \A si \in Rules : si \in AllRules /\ TimeGate[si]

\* C9 is met: Schedule.Silenced has returned an alert key that a stored rule
\* with a window of more than one instant silences at the last instant of
\* the window.
C9_Witness ==
    /\ sc.pc = "done"
    /\ sc.ret.op = "Silenced"
    /\ \E si \in Rules : \E ak \in DOMAIN sc.ret.val :
          si.Start < si.End /\ sc.snow = si.End /\ Silenced(si, sc.snow, ak)

\* The rules that match the alert key ak and whose window holds t.
ActiveRules(ak, t) == {si \in Rules : Matches(si, ak) /\ si.Start <= t /\ t <= si.End}

Max(S) == CHOOSE e \in S : \A f \in S : f <= e

\* C10: Schedule.Silenced returns the map from the tracked alert keys that
\* some stored rule matches with start <= now <= end to the latest End of
\* those rules, and changes neither the rules nor the status map.
C10_SilencedMap ==
    [][(sc.pc = "silenced" /\ sc'.pc = "done") =>
          /\ sc'.ret.val = [ak \in {a \in DOMAIN status : ActiveRules(a, sc.snow) # {}} |->
                              Max({si.End : si \in ActiveRules(ak, sc.snow)})]
          /\ Silence' = Silence
          /\ status' = status]_vars

\* C10 is met: Schedule.Silenced has returned the later End of two rules that
\* silence one alert key, while another tracked key is absent.
C10_Witness ==
    /\ sc.pc = "done"
    /\ sc.ret.op = "Silenced"
    /\ \E ak \in DOMAIN sc.ret.val : \E s1, s2 \in ActiveRules(ak, sc.snow) :
          s1.End < s2.End /\ sc.ret.val[ak] = s2.End
    /\ DOMAIN sc.ret.val # DOMAIN status

(***************************************************************************)
(* Properties of the index                                                 *)
(***************************************************************************)

\* The key and the tags of the series of SpecLast, as GetLast takes them.
lastTags == TagsString(Tag1(host, web01))
lastKey == cpu \o lastTags

\* The point of the pair p that was stored last, when one was.
Newest(p) == p.points[NewerSlot(p)]

\* C2: a point whose timestamp is not after the timestamp of the point its
\* series accepted last is rejected: the slots and the index stay.
C2_RejectsNotNewer ==
    [][\A dp \in LastPoints :
          ( /\ mdp' = mdp - 1
            /\ key(dp) \in DOMAIN Last
            /\ Last[key(dp)].index > 0
            /\ dp.Timestamp <= Newest(Last[key(dp)]).Timestamp
            /\ IndexPoint(dp) )
          => Last' = Last]_vars

\* The metric names of the replica r.
ReplicaMetrics(r) == {r.MetricTags[k].Metric : k \in DOMAIN r.MetricTags}

\* C3: UniqueMetrics returns the metric names of the published replica,
\* sorted, each once and nothing else, whatever the live tables hold.
C3_UniqueMetrics ==
    (rd.pc = "done" /\ rd.ret.op = "UniqueMetrics")
       => /\ rd.ret.err = "nil"
          /\ \E r \in rd.ret.seen : rd.ret.val = SortStrings(SetToSeq(ReplicaMetrics(r)))

\* The alternatives of the tag k of the query q, trimmed.
Alternatives(q, k) ==
    {TrimSpace(Split(q.Tags[k], "|")[i]) : i \in 1..Len(Split(q.Tags[k], "|"))}

\* The alternative v of the tag k of q holds a wildcard and no value of a
\* replica that was current during the call matches it.
ExpandsToNothing(q, k, v, seen) ==
    /\ Contains(v, "*")
    /\ v # Star
    /\ \A r \in seen : Match(v, TagValuesByMetricTagKey(r, q.Metric, k)) = <<>>

\* C4: Expand returns an error whenever an alternative with a wildcard
\* expands to no tag value, whatever the other alternatives of the tag are.
C4_ExpandFailsOnEmptyAlternative ==
    (rd.pc = "done" /\ rd.ret.op = "Expand")
       => ( (\E k \in DOMAIN rd.ret.arg.Tags : \E v \in Alternatives(rd.ret.arg, k) :
                ExpandsToNothing(rd.ret.arg, k, v, rd.ret.seen))
            => rd.ret.err # "nil" )

\* C5: what one call of TagValuesByTagKey returns is what the query gives on
\* one replica that was current at some moment of the call.
C5_PointInTime ==
    (rd.pc = "done" /\ rd.ret.op = "TagValuesByTagKey" /\ rd.ret.err = "nil")
       => \E r \in rd.ret.seen : rd.ret.val = TagValuesByTagKeyOn(r, rd.ret.arg)

\* The replica shows the point dp to the three queries on it.
Published(dp) ==
    /\ key(dp) \in DOMAIN read.MetricTags
    /\ \A k \in DOMAIN dp.Tags :
          /\ dp.Metric \in Range(MetricsByTagPair(read, k, dp.Tags[k]))
          /\ k \in Range(TagKeysByMetric(read, dp.Metric))
          /\ dp.Tags[k] \in Range(TagValuesByMetricTagKey(read, dp.Metric, k))

\* C6: every point that Index has stored is in the published replica at some
\* later moment, with no further call of Index needed.
C6_EventuallyPublished ==
    \A dp \in Points : (key(dp) \in DOMAIN MetricTags) ~> Published(dp)

\* C6 is met: the replica shows a point that Index stored, and no publish is
\* pending.
C6_Witness ==
    /\ \E dp \in Points : key(dp) \in DOMAIN MetricTags /\ Published(dp)
    /\ ~copy
    /\ mu = "free"

\* C7: when Index stores a point dp in a pair, GetLast reports dp as the
\* newer point and the point stored before it as the older one: without diff
\* the value of dp, with diff the difference to the point stored before over
\* the difference of the timestamps, and no error when both values are
\* float64 and dp has a later timestamp.
C7_NewerAndOlder ==
    [][\A dp \in LastPoints :
          ( /\ mdp' = mdp - 1
            /\ Accepts(Lookup(Last, key(dp), NewPair), dp)
            /\ IndexPoint(dp) )
          => LET p    == Lookup(Last, key(dp), NewPair)
                 prev == Newest(p)
                 one  == GetLastOn(Last', dp.Metric, TagsString(dp.Tags), FALSE)
                 two  == GetLastOn(Last', dp.Metric, TagsString(dp.Tags), TRUE)
             IN /\ one.v = Frac(dp.Value.f, 1)
                /\ dp.Value.ok => one.err = "nil"
                /\ p.index > 0 =>
                     /\ two.v = Frac(dp.Value.f - prev.Value.f,
                                     dp.Timestamp - prev.Timestamp)
                     /\ (dp.Value.ok /\ prev.Value.ok /\ prev.Timestamp < dp.Timestamp)
                           => two.err = "nil"]_vars

\* C7 is met: three points with timestamps 1 < 2 < 3 and the values 1, 1, 3
\* have been stored and GetLast with diff has returned (3 - 1) / (3 - 2).
C7_Witness ==
    /\ lastKey \in DOMAIN Last
    /\ Last[lastKey].index = 3
    /\ Newest(Last[lastKey]) = DataPoint(cpu, Tag1(host, web01), 3, Float(3))
    /\ Last[lastKey].points[OlderSlot(Last[lastKey])]
          = DataPoint(cpu, Tag1(host, web01), 2, Float(1))
    /\ rd.pc = "done"
    /\ rd.ret.op = "GetLast"
    /\ rd.ret.arg = <<cpu, lastTags, TRUE>>
    /\ rd.ret.val = Frac(2, 1)
    /\ rd.ret.err = "nil"

\* C8: GetLast returns an error when the cache has no series under the key
\* metric+tags.
C8_NoMatchIsAnError ==
    (rd.pc = "done" /\ rd.ret.op = "GetLast"
        /\ rd.ret.arg[1] \o rd.ret.arg[2] \notin DOMAIN Last)
       => rd.ret.err # "nil"

(***************************************************************************)
(* Properties of AddSilence and ClearSilence                               *)
(***************************************************************************)

\* The checks of AddSilence in the order they are listed, each with what
\* makes it fail and the error it reports.
Checks(start, end, p, t) ==
    << <<start = 0 \/ end = 0, "both start and end must be specified">>,
       <<start > end, "start time must be before end time">>,
       <<end < t, "end time must be in the future">>,
       <<p[1] = <<>> /\ p[2] = <<>>, "must specify either alert or tags">>,
       <<ParseAlertKeyFails(RuleOf(start, end, p).Alert), "parse error">> >>

\* The checks that fail.
Failed(start, end, p, t) == {i \in 1..5 : Checks(start, end, p, t)[i][1]}

\* The first of them.
FirstFailed(start, end, p, t) ==
    CHOOSE i \in Failed(start, end, p, t) : \A j \in Failed(start, end, p, t) : i <= j

\* C11: when a check of AddSilence fails, the call returns the error of the
\* first check that fails, the rules are unchanged (the rule under the edit
\* id too, with confirm set), the lock is not taken and Save does not run.
C11_ValidationFailure ==
    [][(sc.pc = "idle" /\ hist'.args # <<>>)
          => LET a == hist'.args
             IN Failed(a[1], a[2], a[3], now) # {}
                  => /\ sc'.pc = "done"
                     /\ sc'.ret.op = "AddSilence"
                     /\ sc'.ret.err = Checks(a[1], a[2], a[3], now)[FirstFailed(a[1], a[2], a[3], now)][2]
                     /\ sc'.ret.val = <<>>
                     /\ sc'.ret.saved = "no"
                     /\ Silence' = Silence
                     /\ smu' = smu]_vars

\* C11 is met: AddSilence with confirm and the id of a stored rule to edit
\* has refused an end in the past, and that rule is still stored.
C11_Witness ==
    /\ sc.pc = "done"
    /\ sc.ret.op = "AddSilence"
    /\ sc.ret.err = "end time must be in the future"
    /\ sc.ret.saved = "no"
    /\ hist.args[4]
    /\ hist.args[5] \in DOMAIN Silence
    /\ Cardinality(DOMAIN Silence) = MaxSilences

\* C12: no rule that AddSilence stored has a start that is not before its end.
C12_StartBeforeEnd == \A si \in Rules : si.Start < si.End

\* C13: AddSilence without confirm leaves the rules as they are, the rule
\* under the edit id too, does not run Save, and returns the tracked alert
\* keys that the rule matches, whatever its window, each with IsActive of
\* its status.
C13_Preview ==
    [][(sc.pc = "idle" /\ hist'.args # <<>>)
          => LET a == hist'.args
             IN (Failed(a[1], a[2], a[3], now) = {} /\ ~a[4])
                  => /\ sc'.pc = "done"
                     /\ sc'.ret.op = "AddSilence"
                     /\ sc'.ret.err = "nil"
                     /\ sc'.ret.saved = "no"
                     /\ Silence' = Silence
                     /\ smu' = "free"
                     /\ DOMAIN sc'.ret.val
                           = {ak \in DOMAIN status : Matches(RuleOf(a[1], a[2], a[3]), ak)}
                     /\ \A ak \in DOMAIN sc'.ret.val : sc'.ret.val[ak] = status[ak]]_vars

\* C13 is met: a preview that was given the id of a stored rule has returned
\* an alert key with its status, and that rule is still stored.
C13_Witness ==
    /\ sc.pc = "done"
    /\ sc.ret.op = "AddSilence"
    /\ sc.ret.err = "nil"
    /\ sc.ret.saved = "no"
    /\ \E ak \in DOMAIN sc.ret.val : sc.ret.val[ak] = status[ak]
    /\ ~hist.args[4]
    /\ hist.args[5] \in DOMAIN Silence
    /\ Cardinality(DOMAIN Silence) = MaxSilences

\* C14: AddSilence with confirm deletes the edit id and inserts the new rule
\* under the lock. When it returns, the new rule is stored under its ID, the
\* edit id is gone unless it is that ID, every other rule is as it was at the
\* lock, Save has run and nothing is returned; and no scan of another
\* goroutine runs between the delete and the insertion.
C14_AtomicEdit ==
    /\ [](ob.pc = "done" => ~ob.gap)
    /\ [](sc.pc = "insert" => smu # "free")
    /\ [][(sc.pc = "unlock" /\ sc'.pc = "done")
            => /\ ID(sc.si) \in DOMAIN Silence
               /\ Silence[ID(sc.si)] = sc.si
               /\ hist.edit # ID(sc.si) => hist.edit \notin DOMAIN Silence
               /\ DOMAIN Silence = (DOMAIN hist.before \ {hist.edit}) \cup {ID(sc.si)}
               /\ \A id \in DOMAIN Silence \ {ID(sc.si)} : Silence[id] = hist.before[id]
               /\ sc.saved # "no"
               /\ sc'.ret.val = <<>>
               /\ sc'.ret.err = "nil"
               /\ Silence' = Silence]_vars

\* C14 is met: an edit has replaced a stored rule by a new one beside a rule
\* it left alone, and the second goroutine has scanned the rules.
C14_Witness ==
    /\ sc.pc = "done"
    /\ sc.ret.op = "AddSilence"
    /\ sc.ret.saved = "locked"
    /\ hist.edit \in DOMAIN hist.before
    /\ hist.edit \notin DOMAIN Silence
    /\ Cardinality(DOMAIN Silence) = 2
    /\ ob.pc = "done"
    /\ ob.val # <<>>

\* C15: ClearSilence returns no error whether the id is stored or not; the id
\* is absent afterwards, every other rule is unchanged, a second call with
\* the id changes nothing more, and Save runs in every call.
C15_ClearSilence ==
    [][ /\ \A id \in DOMAIN Silence \cup {NoSuchID} :
              (sc.pc = "idle" /\ sc'.pc # "idle" /\ ClearSilenceCall(id))
              => /\ sc'.pc = "clearsave"
                 /\ DOMAIN Silence' = DOMAIN Silence \ {id}
                 /\ \A k \in DOMAIN Silence' : Silence'[k] = Silence[k]
                 /\ Remove(Silence', id) = Silence'
        /\ (sc.pc = "clearsave" /\ sc' # sc)
              => /\ sc'.pc = "done"
                 /\ sc'.ret.op = "ClearSilence"
                 /\ sc'.ret.err = "nil"
                 /\ sc'.ret.saved # "no"
                 /\ Silence' = Silence ]_vars

\* C15 is met: ClearSilence has returned after Save, and a rule it was not
\* asked to clear is still stored.
C15_Witness ==
    /\ sc.pc = "done"
    /\ sc.ret.op = "ClearSilence"
    /\ sc.ret.err = "nil"
    /\ sc.ret.saved = "unlocked"
    /\ Silence # <<>>

\* The ID of each rule of the model.
IDs == [s \in AllRules |-> ID(s)]

\* C16: the ID is a function of (start, end, pattern) that no two triples
\* share: every stored rule is stored under its own ID, no other triple has
\* that ID, and no triple is stored twice.
C16_IDInjective ==
    /\ \A id \in DOMAIN Silence : ID(Silence[id]) = id
    /\ \A s1 \in Rules : \A s2 \in AllRules : (IDs[s1] = IDs[s2]) <=> (s1 = s2)
    /\ \A i1, i2 \in DOMAIN Silence : Silence[i1] = Silence[i2] => i1 = i2

\* C16 is met: two rules that differ in the start only are stored under two
\* IDs.
C16_Witness ==
    /\ sc.pc = "done"
    /\ sc.ret.op = "AddSilence"
    /\ sc.ret.err = "nil"
    /\ \E i1, i2 \in DOMAIN Silence :
          /\ i1 # i2
          /\ Silence[i1].Start # Silence[i2].Start
          /\ Silence[i1].End = Silence[i2].End
          /\ Silence[i1].Alert = Silence[i2].Alert

(***************************************************************************)
(* Properties of Match                                                     *)
(***************************************************************************)

RECURSIVE Glob(_, _)
\* The pattern p matches the whole of s: "*" stands for any characters, none
\* included, and every other character, "." too, for itself.
Glob(p, s) ==
    IF p = <<>> THEN s = <<>>
    ELSE IF Head(p) = "*"
    THEN Glob(Tail(p), s) \/ (s # <<>> /\ Glob(p, Tail(s)))
    ELSE s # <<>> /\ Head(s) = Head(p) /\ Glob(Tail(p), Tail(s))

\* Whether the value v matches the pattern of the call that returned.
GlobOfCall(v) == Glob(rd.ret.arg[1], v)

\* C17: Match returns the values that match the pattern as a whole, in the
\* order they were given: "." matches a "." only and "*" any characters.
C17_Match ==
    (rd.pc = "done" /\ rd.ret.op = "Match")
       => /\ rd.ret.err = "nil"
          /\ rd.ret.val = SelectSeq(rd.ret.arg[2], GlobOfCall)

\* C17 is met: Match with web* has kept web-01 and dropped xweb-01.
C17_Witness ==
    /\ rd.pc = "done"
    /\ rd.ret.op = "Match"
    /\ rd.ret.arg = <<web \o Star, << <<"x">> \o web01, web01 >> >>
    /\ rd.ret.val = <<web01>>

(***************************************************************************)
(* Properties of the replica and of the live tables                        *)
(***************************************************************************)

\* The publish goroutines that have started and not finished.
Pending == sleeping + waking

\* C18: at most one publish is pending. The copy flag is set exactly while
\* one publish goroutine has started and not finished; it is set by Index as
\* it takes the lock, cleared by the publish under the lock, and a call of
\* Index that finds it set starts no goroutine.
C18_OnePublishPending ==
    /\ [](Pending <= 1 /\ (copy <=> Pending = 1))
    /\ [][ /\ (~copy /\ copy') => (mu = "free" /\ mu' = "index" /\ Pending' = Pending + 1)
           /\ (copy /\ ~copy') => (mu = "free" /\ mu' = "free" /\ Pending' = Pending - 1
                                    /\ read' = SearchCopy(Metric, Tagk, Tagv, MetricTags))
           /\ (copy /\ mu = "free" /\ mu' = "index") => (copy' /\ Pending' = Pending) ]_vars

\* C18 is met: a second call of Index runs while the publish that the first
\* one started waits for the lock, and no other publish has started.
C18_Witness ==
    /\ mu = "index"
    /\ copy
    /\ waking = 1
    /\ sleeping = 0
    /\ read = EmptyTables
    /\ Cardinality(DOMAIN MetricTags) > MaxBatch

\* C19: a replica is never changed once it is published. No step changes
\* what the current replica or a replica that a running query has read
\* shows, Index least of all; s.read changes in a publish only, to a new
\* replica as a whole.
C19_ReplicaImmutable ==
    [][ /\ \A r \in rd.seen \cup {read} : Visible(r)' = Visible(r)
        /\ read' # read => (mu = "free" /\ waking' = waking - 1
                              /\ read' = SearchCopy(Metric, Tagk, Tagv, MetricTags)) ]_vars

\* C19 is met: a query holds a replica that a publish has since replaced,
\* and Index has added a tag value to a set that the current replica has too.
C19_Witness ==
    /\ \E r \in rd.seen : r # read /\ r # EmptyTables
    /\ <<cpu, host>> \in DOMAIN read.Tagv
    /\ read.Tagv[<<cpu, host>>] # Tagv[<<cpu, host>>]

\* The series of the registry.
Series == {MetricTags[k] : k \in DOMAIN MetricTags}

\* C20: after a call of Index the live tables agree. Every tag pair of every
\* series of the registry is in the three tables, every entry of the three
\* tables comes from a series of the registry, and the cache of last points
\* has the keys of the registry.
C20_LiveTablesAgree ==
    mu = "free" =>
       /\ \A k \in DOMAIN MetricTags : key(MetricTags[k]) = k
       /\ \A mts \in Series : \A k \in DOMAIN mts.Tags :
             /\ mts.Metric \in Lookup(Metric, <<k, mts.Tags[k]>>, {})
             /\ k \in Lookup(Tagk, mts.Metric, {})
             /\ mts.Tags[k] \in Lookup(Tagv, <<mts.Metric, k>>, {})
       /\ \A q \in DOMAIN Metric : \A m \in Metric[q] :
             \E mts \in Series :
                mts.Metric = m /\ q[1] \in DOMAIN mts.Tags /\ mts.Tags[q[1]] = q[2]
       /\ \A m \in DOMAIN Tagk : \A k \in Tagk[m] :
             \E mts \in Series : mts.Metric = m /\ k \in DOMAIN mts.Tags
       /\ \A q \in DOMAIN Tagv : \A v \in Tagv[q] :
             \E mts \in Series :
                mts.Metric = q[1] /\ q[2] \in DOMAIN mts.Tags /\ mts.Tags[q[2]] = v
       /\ DOMAIN Last = DOMAIN MetricTags

\* C20 is met: Index has returned with every series of the model stored, two
\* of them under one metric and tag key.
C20_Witness ==
    /\ mu = "free"
    /\ Cardinality(DOMAIN MetricTags) = Cardinality(SeriesSet)
    /\ Cardinality(Tagv[<<cpu, host>>]) = 2

(***************************************************************************)
(* Properties of Save and of the published replicas                        *)
(***************************************************************************)

\* C21: Save runs outside the critical section of the Schedule lock in
\* AddSilence with confirm and in ClearSilence: no call has run Save while
\* it held the lock.
C21_SaveOutsideLock == sc.saved # "locked"

\* The tables a are within the tables b: every key of a table of a is a key
\* of that table of b, with a set that is within the set of b, and every
\* series of a is that series of b.
Within(a, b) ==
    /\ \A q \in DOMAIN a.Metric : q \in DOMAIN b.Metric /\ a.Metric[q] \subseteq b.Metric[q]
    /\ \A m \in DOMAIN a.Tagk : m \in DOMAIN b.Tagk /\ a.Tagk[m] \subseteq b.Tagk[m]
    /\ \A q \in DOMAIN a.Tagv : q \in DOMAIN b.Tagv /\ a.Tagv[q] \subseteq b.Tagv[q]
    /\ \A k \in DOMAIN a.MetricTags :
          k \in DOMAIN b.MetricTags /\ a.MetricTags[k] = b.MetricTags[k]

\* The four live tables.
Live == [Metric |-> Metric, Tagk |-> Tagk, Tagv |-> Tagv, MetricTags |-> MetricTags]

\* C22: ingestion and publish never overlap. Every replica, the current one
\* and one a running query has read, is within the live tables; a publish
\* runs only while no call of Index holds the lock, with no point of a batch
\* left, and makes the replica equal to the four live tables of that moment;
\* the replica it replaces is within the new one; the replica changes in no
\* other step, and in no step of a call of Index.
C22_SnapshotsGrow ==
    /\ [](\A r \in rd.seen \cup {read} : Within(Visible(r), Live))
    /\ [][ /\ waking' < waking
              => /\ mu = "free" /\ mu' = "free" /\ mdp = 0
                 /\ Within(Visible(read)', Live) /\ Within(Live, Visible(read)')
                 /\ Within(Visible(read), Visible(read)')
           /\ read' # read => waking' < waking
           /\ (mu = "index" \/ mu' = "index") => read' = read ]_vars

\* C22 is met: a query that is running has read two replicas that are not
\* empty, the second with a series more than the first, and a call of Index
\* has stored one point of its batch, which the replica does not show, and
\* has another left.
C22_Witness ==
    /\ mu = "index"
    /\ mdp > 0
    /\ DOMAIN read.MetricTags # DOMAIN MetricTags
    /\ \E r \in rd.seen :
          /\ r.MetricTags # <<>>
          /\ DOMAIN r.MetricTags # DOMAIN read.MetricTags
          /\ DOMAIN r.MetricTags \subseteq DOMAIN read.MetricTags

====
